---- MODULE Spec2Model ----
(***************************************************************************)
(* Model of monitor.py: the watchdog handler FileCreationHandler           *)
(* (on_created / process_new_file) run by several event deliveries over a  *)
(* shared file system.  Strings are sequences of one-character strings,    *)
(* paths are records of an absolute flag, directory components and a file  *)
(* name, so that os.path and str methods are computed as Python does.      *)
(***************************************************************************)
EXTENDS Integers, Sequences, FiniteSets, TLC

\* ------------------------------------------------------------------ bounds
MaxJobs == 2

Jobs == 1..MaxJobs

\* ------------------------------------------------------- str operations
LowerChar(c) ==
  CASE c = "C" -> "c" [] c = "D" -> "d" [] c = "L" -> "l" [] c = "M" -> "m"
    [] c = "O" -> "o" [] c = "X" -> "x" [] OTHER -> c

lower(s) == [i \in 1..Len(s) |-> LowerChar(s[i])]

endswith(s, suffix) ==
  /\ Len(s) >= Len(suffix)
  /\ SubSeq(s, Len(s) - Len(suffix) + 1, Len(s)) = suffix

startswith(s, prefix) ==
  /\ Len(s) >= Len(prefix)
  /\ SubSeq(s, 1, Len(prefix)) = prefix

DOCX == <<".", "d", "o", "c", "x">>
XML == <<".", "x", "m", "l">>
CONFIG == <<"c", "o", "n", "f", "i", "g", "-">>

\* ------------------------------------------------------ os.path operations
\* A path is [abs, dirs, name]; a directory path is [abs, dirs].
basename(p) == p.name

dirname(p) == [abs |-> p.abs, dirs |-> p.dirs]

\* index of the last "." of a name, 0 when there is none
LastDot(n) ==
  LET D == {i \in 1..Len(n) : n[i] = "."}
  IN IF D = {} THEN 0 ELSE CHOOSE i \in D : \A k \in D : k <= i

\* genericpath._splitext on the name: a dot splits only when some character
\* before it is not a dot
SplitName(n) ==
  LET d == LastDot(n)
  IN IF d > 0 /\ \E i \in 1..(d - 1) : n[i] # "."
       THEN <<SubSeq(n, 1, d - 1), SubSeq(n, d, Len(n))>>
       ELSE <<n, <<>> >>

\* os.path.splitext(p)[0] + ext
ReplaceExt(p, ext) ==
  [abs |-> p.abs, dirs |-> p.dirs, name |-> SplitName(p.name)[1] \o ext]

\* os.path.join(d, p): an absolute second argument discards the first
join(d, p) ==
  IF p.abs THEN p
  ELSE [abs |-> d.abs, dirs |-> d.dirs \o p.dirs, name |-> p.name]

\* the script's working directory (os.chdir(script_dir))
Cwd == <<"app">>

NotDot(c) == c # "."

\* the directory a directory path denotes on disk
Resolve(d) == (IF d.abs THEN <<>> ELSE Cwd) \o SelectSeq(d.dirs, NotDot)

IsEmptyPath(d) == ~d.abs /\ d.dirs = <<>>

Prefixes(s) == {SubSeq(s, 1, k) : k \in 0..Len(s)}

\* ------------------------------------------------------------ event inputs
A_XML == CONFIG \o <<"a">> \o XML
A_XML_UPPER == CONFIG \o <<"a", ".", "X", "M", "L">>
A_DOCX == CONFIG \o <<"a">> \o DOCX
A_DOCX_UPPER == CONFIG \o <<"a", ".", "D", "O", "C", "X">>
A_TXT == CONFIG \o <<"a", ".", "t", "x", "t">>
A_NODOT == CONFIG \o <<"a", "x", "m", "l">>
CAP_XML == <<"C", "o", "n", "f", "i", "g", "-", "a">> \o XML
REPORT_XML == <<"r", "e", "p", "o", "r", "t">> \o XML

\* names on_created must reject
RejectedNames ==
  {A_DOCX, A_DOCX_UPPER, A_TXT, A_NODOT, CAP_XML, REPORT_XML}

\* directories events are delivered for: below an absolute root and below a
\* relative root
AbsRoot == [abs |-> TRUE, dirs |-> <<"w">>]
RelRoot == [abs |-> FALSE, dirs |-> <<"sub">>]

FileEvent(d, n) ==
  [src_path |-> [abs |-> d.abs, dirs |-> d.dirs, name |-> n],
   is_directory |-> FALSE]

DirEvent(d, n) ==
  [src_path |-> [abs |-> d.abs, dirs |-> d.dirs, name |-> n],
   is_directory |-> TRUE]

Events ==
  {FileEvent(AbsRoot, n) : n \in RejectedNames}
    \cup {FileEvent(AbsRoot, A_XML_UPPER), FileEvent(RelRoot, A_XML),
          DirEvent(AbsRoot, A_XML)}

NoEvent == [src_path |-> [abs |-> FALSE, dirs |-> <<>>, name |-> <<>>],
            is_directory |-> FALSE]

NoPath == [abs |-> FALSE, dirs |-> <<>>, name |-> <<>>]

\* names tempfile can generate; 0 stands for "no temporary file"
TempNames == 1..MaxJobs

\* ------------------------------------------------------------ log records
L(level, msg) == [level |-> level, msg |-> msg]

D_NewFile == L("DEBUG", "New file detected")
D_FileCreated == L("DEBUG", "File created")
I_Processing == L("INFO", "Processing new XML file")
I_TempCreated == L("INFO", "Temporary .md file created")
E_TempCreate == L("ERROR", "Error while creating temporary .md file")
I_Starting == L("INFO", "Starting processing of file")
D_Running == L("DEBUG", "Running command")
I_CmdOutput == L("INFO", "Command output")
E_CmdErrors == L("ERROR", "Command errors")
I_ProcComplete == L("INFO", "Processing complete")
E_PfFormat == L("ERROR", "Error while running pf-format")
I_Converting == L("INFO", "Converting MD file to DOCX")
I_CreatedDir == L("INFO", "Created missing directory")
E_Dir == L("ERROR", "Error creating directory")
I_ConvOK == L("INFO", "Conversion to DOCX successful")
E_InConv == L("ERROR", "Error in conversion")
E_DuringConv == L("ERROR", "Error during conversion")
I_TempDeleted == L("INFO", "Temporary .md file deleted")
E_Delete == L("ERROR", "Error deleting temporary .md file")
I_Monitoring == L("INFO", "Monitoring folder...")
I_MonitoringDir == L("INFO", "Monitoring directory")
E_MonitorDir == L("ERROR", "Error monitoring directory")

\* ------------------------------------------------------------------- state
VARIABLES
  pc,             \* position of each event delivery in on_created
  event,          \* the event handed to on_created
  md_file_path,   \* name of the job's temporary file, 0 when none
  docx_file_path, \* output path computed by process_new_file
  handleOpen,     \* the NamedTemporaryFile object is still open
  log,            \* records the job wrote to the logger, in order
  calls,          \* library calls the job made, with their results
  escaped,        \* an exception left on_created
  tempFiles,      \* temporary files on disk: [name, owner]
  outFiles,       \* output files on disk: [dir, name]
  dirs,           \* directories on disk
  paths_to_watch, \* the argument of monitor_directory
  mainPc,         \* position of the main thread in monitor_directory
  observer,       \* the Observer: "new", "running" or "stopped"
  watches,        \* roots the observer has a watch for
  mainLog,        \* records monitor_directory wrote to the logger
  scheduleCalls   \* calls of observer.schedule, with their results

watcherVars ==
  <<paths_to_watch, mainPc, observer, watches, mainLog, scheduleCalls>>

vars == <<pc, event, md_file_path, docx_file_path, handleOpen, log, calls,
          escaped, tempFiles, outFiles, dirs, paths_to_watch, mainPc,
          observer, watches, mainLog, scheduleCalls>>

InitDirs == {<<>>, <<"w">>, Cwd, Cwd \o <<"sub">>}

\* the handler before any event
InitJobs ==
  /\ pc = [j \in Jobs |-> "idle"]
  /\ event = [j \in Jobs |-> NoEvent]
  /\ md_file_path = [j \in Jobs |-> 0]
  /\ docx_file_path = [j \in Jobs |-> NoPath]
  /\ handleOpen = [j \in Jobs |-> FALSE]
  /\ log = [j \in Jobs |-> <<>>]
  /\ calls = [j \in Jobs |-> <<>>]
  /\ escaped = [j \in Jobs |-> FALSE]
  /\ tempFiles = {}
  /\ outFiles = {}
  /\ dirs = InitDirs

\* the handler under an observer that watches both roots and runs
Init ==
  /\ InitJobs
  /\ paths_to_watch = <<AbsRoot, RelRoot>>
  /\ mainPc = "loop"
  /\ observer = "running"
  /\ watches = {AbsRoot, RelRoot}
  /\ mainLog = <<I_MonitoringDir, I_MonitoringDir>>
  /\ scheduleCalls = <<[path |-> AbsRoot, res |-> "ok"],
                       [path |-> RelRoot, res |-> "ok"]>>

\* --------------------------------------------------------- exception flow
ExceptionClasses == {"OSError", "RuntimeError", "CalledProcessError"}

\* variant: the except clause of on_created names one exception class only
OnCreatedCatches_Narrow(exc) == exc = "CalledProcessError"

\* on_created: except Exception
OnCreatedCatches(exc) == exc \in ExceptionClasses

\* process_new_file: the except clause of each try block
Stage1Catches(exc) == exc = "CalledProcessError"

MakeDirsCatches(exc) == exc = "OSError"

Stage2Catches(exc) == exc \in ExceptionClasses

\* variant: the except clause around os.remove names a class it never gets
RemoveCatches_Narrow(exc) == exc = "CalledProcessError"

RemoveCatches(exc) == exc = "OSError"

\* subprocess.run is called without check=True: a failure exit status is
\* returned in the result, only a failed launch raises
SubprocessRunRaises(result) == result.raises

Call(j, op, res) ==
  calls' = [calls EXCEPT ![j] = Append(@, [op |-> op, res |-> res])]

\* variant: a failed deletion is tried again
Return_RetryCleanup(j, recs) ==
  /\ pc' = [pc EXCEPT ![j] =
              IF pc[j] = "cleanup" /\ recs[1] = E_Delete THEN "cleanup"
              ELSE "done"]
  /\ handleOpen' = [handleOpen EXCEPT ![j] = pc'[j] # "done"]
  /\ log' = [log EXCEPT ![j] = @ \o recs]
  /\ UNCHANGED escaped

\* process_new_file returns normally and the with block closes the file
Return(j, recs) ==
  /\ pc' = [pc EXCEPT ![j] = "done"]
  /\ handleOpen' = [handleOpen EXCEPT ![j] = FALSE]
  /\ log' = [log EXCEPT ![j] = @ \o recs]
  /\ UNCHANGED escaped

\* variant: the except clause of on_created logs a failed allocation and the
\* handler goes on to process_new_file instead of ending
Raise_NoReturn(j, exc, recs) ==
  /\ pc' = [pc EXCEPT ![j] = IF pc[j] = "alloc" THEN "stage1" ELSE "done"]
  /\ handleOpen' = [handleOpen EXCEPT ![j] = FALSE]
  /\ log' = [log EXCEPT ![j] = @ \o recs \o <<E_TempCreate>>]
  /\ UNCHANGED escaped

\* exc leaves the body of the with block: the file is closed and the except
\* clause of on_created logs it, or it leaves on_created
Raise(j, exc, recs) ==
  /\ pc' = [pc EXCEPT ![j] = "done"]
  /\ handleOpen' = [handleOpen EXCEPT ![j] = FALSE]
  /\ log' = [log EXCEPT ![j] =
               @ \o recs \o
               (IF OnCreatedCatches(exc) THEN <<E_TempCreate>> ELSE <<>>)]
  /\ escaped' = [escaped EXCEPT ![j] = ~OnCreatedCatches(exc)]

\* a step that stays inside process_new_file
Goto(j, label, recs) ==
  /\ pc' = [pc EXCEPT ![j] = label]
  /\ log' = [log EXCEPT ![j] = @ \o recs]
  /\ UNCHANGED <<handleOpen, escaped>>

\* ------------------------------------------------------------- on_created
\* variant: the extension tests are made on the name as given
FilterPasses_CaseSensitive(ev) ==
  LET filename == basename(ev.src_path)
  IN /\ ~ev.is_directory
     /\ ~endswith(filename, DOCX)
     /\ endswith(filename, XML)
     /\ startswith(filename, CONFIG)

\* variant: the test on the config- prefix is missing
FilterPasses_NoPrefix(ev) ==
  LET filename == basename(ev.src_path)
  IN /\ ~ev.is_directory
     /\ ~endswith(lower(filename), DOCX)
     /\ endswith(lower(filename), XML)

FilterPasses(ev) ==
  LET filename == basename(ev.src_path)
  IN /\ ~ev.is_directory
     /\ ~endswith(lower(filename), DOCX)
     /\ endswith(lower(filename), XML)
     /\ startswith(filename, CONFIG)

FilterLog(ev) ==
  LET filename == basename(ev.src_path)
  IN <<D_NewFile>> \o
     (IF ev.is_directory \/ endswith(lower(filename), DOCX) THEN <<>>
      ELSE <<D_FileCreated>> \o
           (IF FilterPasses(ev) THEN <<I_Processing>> ELSE <<>>))

\* the directory tempfile creates its files in, and the name it gives them
TempDir == [abs |-> TRUE, dirs |-> <<"tmp">>]

TempDigit(n) == CASE n = 1 -> "1" [] n = 2 -> "2" [] n = 3 -> "3" [] OTHER -> "4"

TempFileName(n) == <<"t", "m", "p", TempDigit(n), ".", "m", "d">>

\* a directory component as the file name an event for it carries
ComponentChars(c) ==
  CASE c = "sub" -> <<"s", "u", "b">> [] c = "w" -> <<"w">> [] OTHER -> <<c>>

\* the event a watcher raises for the creation of directory d
DirCreated(d) ==
  DirEvent([abs |-> d.abs, dirs |-> SubSeq(d.dirs, 1, Len(d.dirs) - 1)],
           ComponentChars(d.dirs[Len(d.dirs)]))

\* creation events for what the jobs themselves put on disk: output files,
\* temporary files and output directories
ArtifactEvents ==
  {FileEvent(dirname(docx_file_path[k]), docx_file_path[k].name) :
     k \in {k \in Jobs :
             [dir |-> Resolve(dirname(docx_file_path[k])),
              name |-> docx_file_path[k].name] \in outFiles}}
    \cup {FileEvent(TempDir, TempFileName(t.name)) : t \in tempFiles}
    \cup {DirCreated(dirname(docx_file_path[k])) :
            k \in {k \in Jobs :
                    \E i \in DOMAIN calls[k] :
                      calls[k][i] = [op |-> "makedirs", res |-> "ok"]}}

\* on_created called with one of the events evs; deliveries are numbered in
\* the order they arrive
OnCreatedWith(j, evs) ==
  /\ pc[j] = "idle"
  /\ \A k \in Jobs : k < j => pc[k] # "idle"
  /\ \E ev \in evs :
       /\ event' = [event EXCEPT ![j] = ev]
       /\ Goto(j, IF FilterPasses(ev) THEN "alloc" ELSE "done", FilterLog(ev))
  /\ UNCHANGED <<md_file_path, docx_file_path, calls, tempFiles, outFiles,
                 dirs>>
  /\ UNCHANGED watcherVars

OnCreated(j) == OnCreatedWith(j, Events \cup ArtifactEvents)

\* tempfile.NamedTemporaryFile(delete=False, suffix='.md'): the name is one
\* no existing file has (O_EXCL).  Names are opaque, so the least unused one
\* stands for the random choice; 0 when every name is taken.
\* variant: every job uses the same temporary file name
FreshTempName_Fixed(files) == 1

FreshTempName(files) ==
  LET free == TempNames \ {t.name : t \in files}
  IN IF free = {} THEN 0 ELSE CHOOSE n \in free : \A m \in free : n <= m

AllocTemp(j) ==
  /\ pc[j] = "alloc"
  /\ \/ \E n \in {FreshTempName(tempFiles)} \ {0} :
          /\ md_file_path' = [md_file_path EXCEPT ![j] = n]
          /\ tempFiles' = tempFiles \cup {[name |-> n, owner |-> j]}
          /\ Call(j, "NamedTemporaryFile", "ok")
          /\ pc' = [pc EXCEPT ![j] = "stage1"]
          /\ handleOpen' = [handleOpen EXCEPT ![j] = TRUE]
          /\ log' = [log EXCEPT ![j] = Append(@, I_TempCreated)]
          /\ UNCHANGED escaped
     \/ /\ Call(j, "NamedTemporaryFile", "OSError")
        /\ Raise(j, "OSError", <<>>)
        /\ UNCHANGED <<md_file_path, tempFiles>>
  /\ UNCHANGED <<event, docx_file_path, outFiles, dirs>>
  /\ UNCHANGED watcherVars

\* ------------------------------------------------------- process_new_file
\* variant: the output path keeps the name of the source file
DocxPath_KeepsName(file_path) == join(dirname(file_path), file_path)

DocxPath(file_path) ==
  LET directory_path == dirname(file_path)
      docx_filename == ReplaceExt(file_path, DOCX)
  IN join(directory_path, docx_filename)

\* results of the out-of-process call: a launch failure, or a completed
\* process with its exit status and whether it wrote to stderr
Stage1Results ==
  {[raises |-> "OSError", returncode |-> 0, stderr |-> FALSE],
   [raises |-> "none", returncode |-> 0, stderr |-> FALSE],
   [raises |-> "none", returncode |-> 1, stderr |-> TRUE]}

Stage1(j) ==
  /\ pc[j] = "stage1"
  /\ \E result \in Stage1Results :
       LET exc == SubprocessRunRaises(result)
           before == <<I_Starting, D_Running>>
       IN /\ Call(j, "subprocess.run",
                  IF result.raises # "none" THEN result.raises
                  ELSE IF result.returncode = 0 THEN "exit0" ELSE "exit1")
          /\ IF exc = "none"
               THEN /\ Goto(j, "dircheck",
                            before \o <<I_CmdOutput>> \o
                            (IF result.stderr THEN <<E_CmdErrors>>
                             ELSE <<>>) \o
                            <<I_ProcComplete, I_Converting>>)
                    /\ docx_file_path' =
                         [docx_file_path EXCEPT
                            ![j] = DocxPath(event[j].src_path)]
               ELSE /\ IF Stage1Catches(exc)
                         THEN Return(j, before \o <<E_PfFormat>>)
                         ELSE Raise(j, exc, before)
                    /\ UNCHANGED docx_file_path
  /\ UNCHANGED <<event, md_file_path, tempFiles, outFiles, dirs>>
  /\ UNCHANGED watcherVars

\* variant: the existence test always answers yes
exists_AlwaysTrue(d) == TRUE

\* os.path.exists(docx_directory)
exists(d) == ~IsEmptyPath(d) /\ Resolve(d) \in dirs

DirCheck(j) ==
  /\ pc[j] = "dircheck"
  /\ LET docx_directory == dirname(docx_file_path[j])
     IN IF exists(docx_directory)
          THEN Call(j, "exists", "true") /\ Goto(j, "stage2", <<>>)
          ELSE Call(j, "exists", "false") /\ Goto(j, "makedirs", <<>>)
  /\ UNCHANGED <<event, md_file_path, docx_file_path, tempFiles, outFiles,
                 dirs>>
  /\ UNCHANGED watcherVars

\* os.makedirs(docx_directory): raises for "" and for an existing directory
MakeDirs(j) ==
  /\ pc[j] = "makedirs"
  /\ LET docx_directory == dirname(docx_file_path[j])
     IN \/ /\ ~IsEmptyPath(docx_directory)
           /\ Resolve(docx_directory) \notin dirs
           /\ dirs' = dirs \cup Prefixes(Resolve(docx_directory))
           /\ Call(j, "makedirs", "ok")
           /\ Goto(j, "stage2", <<I_CreatedDir>>)
        \/ /\ Call(j, "makedirs", "OSError")
           /\ IF MakeDirsCatches("OSError")
                THEN Return(j, <<E_Dir>>)
                ELSE Raise(j, "OSError", <<>>)
           /\ UNCHANGED dirs
  /\ UNCHANGED <<event, md_file_path, docx_file_path, tempFiles, outFiles>>
  /\ UNCHANGED watcherVars

\* variant: the test on the converter's result is inverted
ConvertSucceeded_Inverted(output) == output # "empty"

\* the test `output == ""`
ConvertSucceeded(output) == output = "empty"

\* results of the in-process converter: what it returns or raises, and
\* whether the output file was written
Stage2Results ==
  {[output |-> "empty", wrote |-> TRUE],
   [output |-> "nonempty", wrote |-> FALSE],
   [output |-> "RuntimeError", wrote |-> FALSE]}

\* variant: the output file is named after the temporary file
OutputFile_FromTemp(j) ==
  [dir |-> Resolve(dirname(docx_file_path[j])),
   name |-> SplitName(TempFileName(md_file_path[j]))[1] \o DOCX]

\* the file outputfile=docx_file_path names on disk
OutputFile(j) ==
  [dir |-> Resolve(dirname(docx_file_path[j])),
   name |-> docx_file_path[j].name]

\* pypandoc.convert_file(md_file_path, 'docx', outputfile=docx_file_path)
Stage2(j) ==
  /\ pc[j] = "stage2"
  /\ \E r \in Stage2Results :
       /\ Call(j, "convert_file", r.output)
       /\ outFiles' =
            IF r.wrote THEN outFiles \cup {OutputFile(j)} ELSE outFiles
       /\ IF r.output = "RuntimeError"
            THEN IF Stage2Catches(r.output)
                   THEN Return(j, <<E_DuringConv>>)
                   ELSE Raise(j, r.output, <<>>)
            ELSE Goto(j, "cleanup",
                      IF ConvertSucceeded(r.output) THEN <<I_ConvOK>>
                      ELSE <<E_InConv>>)
  /\ UNCHANGED <<event, md_file_path, docx_file_path, tempFiles, dirs>>
  /\ UNCHANGED watcherVars

\* os.remove(md_file_path), then the last log line; the function returns
Cleanup(j) ==
  /\ pc[j] = "cleanup"
  /\ \/ /\ \E t \in tempFiles : t.name = md_file_path[j]
        /\ tempFiles' = {t \in tempFiles : t.name # md_file_path[j]}
        /\ Call(j, "remove", "ok")
        /\ Return(j, <<I_TempDeleted, I_Monitoring>>)
     \/ /\ Call(j, "remove", "OSError")
        /\ IF RemoveCatches("OSError")
             THEN Return(j, <<E_Delete, I_Monitoring>>)
             ELSE Raise(j, "OSError", <<>>)
        /\ UNCHANGED tempFiles
  /\ UNCHANGED <<event, md_file_path, docx_file_path, outFiles, dirs>>
  /\ UNCHANGED watcherVars

Next ==
  \E j \in Jobs :
    \/ OnCreated(j)
    \/ AllocTemp(j)
    \/ Stage1(j)
    \/ DirCheck(j)
    \/ MakeDirs(j)
    \/ Stage2(j)
    \/ Cleanup(j)

Spec == Init /\ [][Next]_vars

\* ------------------------------------------------------ monitor_directory
jobVars == <<pc, event, md_file_path, docx_file_path, handleOpen, log, calls,
             escaped, tempFiles, outFiles, dirs>>

\* lists of roots the operator can enter
PathLists == {<<AbsRoot, RelRoot>>}

\* events the file system raises below the roots while the observer runs:
\* the accepted ones, a rejected one, and those for the jobs' own files
WatcherEvents ==
  {FileEvent(AbsRoot, A_XML_UPPER), FileEvent(RelRoot, A_XML),
   FileEvent(AbsRoot, REPORT_XML)} \cup ArtifactEvents

InitWatcher ==
  /\ InitJobs
  /\ paths_to_watch \in PathLists
  /\ mainPc = "schedule"
  /\ observer = "new"
  /\ watches = {}
  /\ mainLog = <<>>
  /\ scheduleCalls = <<>>

\* variant: the except clause around observer.schedule names another class
ScheduleCatches_Narrow(exc) == exc = "CalledProcessError"

\* except OSError around observer.schedule
ScheduleCatches(exc) == exc = "OSError"

\* one turn of `for path in paths_to_watch`
Schedule ==
  /\ mainPc = "schedule"
  /\ Len(scheduleCalls) < Len(paths_to_watch)
  /\ LET path == paths_to_watch[Len(scheduleCalls) + 1]
     IN \/ /\ scheduleCalls' =
                Append(scheduleCalls, [path |-> path, res |-> "ok"])
           /\ watches' = watches \cup {path}
           /\ mainLog' = Append(mainLog, I_MonitoringDir)
           /\ UNCHANGED mainPc
        \/ /\ scheduleCalls' =
                Append(scheduleCalls, [path |-> path, res |-> "OSError"])
           /\ IF ScheduleCatches("OSError")
                THEN /\ mainLog' = Append(mainLog, E_MonitorDir)
                     /\ UNCHANGED mainPc
                ELSE /\ mainPc' = "raised"
                     /\ UNCHANGED mainLog
           /\ UNCHANGED watches
  /\ UNCHANGED <<jobVars, paths_to_watch, observer>>

\* observer.start() after the loop
Start ==
  /\ mainPc = "schedule"
  /\ Len(scheduleCalls) = Len(paths_to_watch)
  /\ observer' = "running"
  /\ mainPc' = "loop"
  /\ UNCHANGED <<jobVars, paths_to_watch, watches, mainLog, scheduleCalls>>

\* KeyboardInterrupt raised in `while True: pass`
Interrupt ==
  /\ mainPc = "loop"
  /\ mainPc' = "except"
  /\ UNCHANGED <<jobVars, paths_to_watch, observer, watches, mainLog,
                 scheduleCalls>>

\* except KeyboardInterrupt: observer.stop()
StopObserver ==
  /\ mainPc = "except"
  /\ observer' = "stopped"
  /\ mainPc' = "join"
  /\ UNCHANGED <<jobVars, paths_to_watch, watches, mainLog, scheduleCalls>>

\* variant: monitor_directory returns without observer.join()
JoinReturns_NoWait == TRUE

\* observer.join() returns when the observer thread has ended, which it does
\* after the handler call it is in has returned
JoinReturns == \A j \in Jobs : pc[j] \in {"idle", "done"}

Join ==
  /\ mainPc = "join"
  /\ JoinReturns
  /\ mainPc' = "returned"
  /\ UNCHANGED <<jobVars, paths_to_watch, observer, watches, mainLog,
                 scheduleCalls>>

IsPrefix(p, q) == Len(p) <= Len(q) /\ SubSeq(q, 1, Len(p)) = p

\* the event lies below a root the observer watches (recursive=True)
Watched(ev) ==
  \E r \in watches :
    r.abs = ev.src_path.abs /\ IsPrefix(r.dirs, ev.src_path.dirs)

\* the observer thread takes one event off its queue and calls on_created;
\* it does so while it runs and only when the previous call has returned
Dispatch(j) ==
  /\ observer = "running"
  /\ \A k \in Jobs : pc[k] \in {"idle", "done"}
  /\ OnCreatedWith(j, {ev \in WatcherEvents : Watched(ev)})

NextWatcher ==
  \/ Schedule
  \/ Start
  \/ Interrupt
  \/ StopObserver
  \/ Join
  \/ \E j \in Jobs :
       \/ Dispatch(j)
       \/ AllocTemp(j)
       \/ Stage1(j)
       \/ DirCheck(j)
       \/ MakeDirs(j)
       \/ Stage2(j)
       \/ Cleanup(j)

\* the main thread is scheduled: it reaches observer.stop() and returns from
\* observer.join() once that can return
SpecWatcher ==
  /\ InitWatcher
  /\ [][NextWatcher]_vars
  /\ WF_vars(StopObserver)
  /\ WF_vars(Join)

\* ------------------------------------------------- observations on a job
HasCall(j, op) == \E i \in DOMAIN calls[j] : calls[j][i].op = op

CountCalls(j, op) == Cardinality({i \in DOMAIN calls[j] : calls[j][i].op = op})

\* result of the job's first call of op, "none" when it made none
ResOf(j, op) ==
  LET c == calls[j]
  IN IF \E i \in DOMAIN c : c[i].op = op
       THEN c[CHOOSE i \in DOMAIN c :
                c[i].op = op /\ \A k \in 1..(i - 1) : c[k].op # op].res
       ELSE "none"

InLog(j, rec) == \E i \in DOMAIN log[j] : log[j][i] = rec

CountLog(j, rec) == Cardinality({i \in DOMAIN log[j] : log[j][i] = rec})

Allocated(j) == ResOf(j, "NamedTemporaryFile") = "ok"

TempExists(j) == \E t \in tempFiles : t.owner = j

OutputExists(j) ==
  [dir |-> Resolve(dirname(docx_file_path[j])),
   name |-> docx_file_path[j].name] \in outFiles

SomeCallFailed(j) ==
  \E i \in DOMAIN calls[j] : calls[j][i].res \in {"OSError", "RuntimeError"}

\* ------------------------------------------------------------------ claims

\* C1: every job whose temporary file was allocated attempts to delete it
\* before it ends, whatever exit path it takes.
C1_CleanupOnEveryExit ==
  \A j \in Jobs : (pc[j] = "done" /\ Allocated(j)) => HasCall(j, "remove")

\* C2: stage 2 is invoked only after stage 1 exited with status zero; after a
\* failure status the job ends without calling stage 2, without an output
\* file, and with its temporary file removed.
C2_Stage2OnlyAfterStage1Success ==
  \A j \in Jobs :
    /\ HasCall(j, "convert_file") => ResOf(j, "subprocess.run") = "exit0"
    /\ ResOf(j, "subprocess.run") = "exit1" => pc[j] \in {"cleanup", "done"}
    /\ (pc[j] = "done" /\ ResOf(j, "subprocess.run") = "exit1") =>
         /\ ~HasCall(j, "convert_file")
         /\ ~OutputExists(j)
         /\ ~TempExists(j)

AllStagesSucceeded(j) ==
  /\ Allocated(j)
  /\ ResOf(j, "subprocess.run") = "exit0"
  /\ ResOf(j, "makedirs") # "OSError"
  /\ ResOf(j, "convert_file") = "empty"

\* C3 as stated: when allocation, stage 1, directory creation and stage 2
\* succeeded, at the return of on_created the output file exists at the
\* derived path, the temporary file is gone and one success record is logged.
C3_Original ==
  \A j \in Jobs :
    (pc[j] = "done" /\ AllStagesSucceeded(j)) =>
      /\ OutputExists(j)
      /\ ~TempExists(j)
      /\ CountLog(j, I_ConvOK) = 1

\* C3 amended: under the same premises the output file exists at the derived
\* path and one success record is logged; the temporary file is gone exactly
\* when its deletion succeeded, and remains when the deletion failed.
C3_SuccessfulJob ==
  \A j \in Jobs :
    (pc[j] = "done" /\ AllStagesSucceeded(j)) =>
      /\ OutputExists(j)
      /\ CountLog(j, I_ConvOK) = 1
      /\ HasCall(j, "remove")
      /\ TempExists(j) <=> (ResOf(j, "remove") = "OSError")

C3_Witness ==
  \E j \in Jobs :
    /\ pc[j] = "done"
    /\ AllStagesSucceeded(j)
    /\ ResOf(j, "remove") = "ok"
    /\ OutputExists(j)
    /\ ~TempExists(j)

\* the claim's four conditions, on the extension os.path.splitext gives
Qualifies(ev) ==
  LET filename == ev.src_path.name
      ext == lower(SplitName(filename)[2])
  IN /\ ~ev.is_directory
     /\ ext = XML
     /\ ext # DOCX
     /\ startswith(filename, CONFIG)

JobStarted(j) == pc[j] = "alloc" \/ calls[j] # <<>>

\* C4: on_created starts a job exactly for the events that are not a
\* directory, have the extension .xml in any case, do not have the extension
\* .docx and begin with config-.
C4_JobIffQualifies ==
  [][\A j \in Jobs :
       (pc[j] = "idle" /\ pc'[j] # "idle") =>
         (JobStarted(j)' <=> Qualifies(event'[j]))]_vars

C4_Witness ==
  /\ \E j \in Jobs :
       /\ event[j] = FileEvent(AbsRoot, A_XML_UPPER)
       /\ JobStarted(j)
  /\ \E j \in Jobs :
       /\ event[j] = FileEvent(AbsRoot, CAP_XML)
       /\ pc[j] = "done"
       /\ ~JobStarted(j)

\* C5: the output path handed to stage 2 lies in the directory of the source
\* file, with the source's base name and the extension .docx.
C5_OutputAdjacent ==
  \A j \in Jobs :
    docx_file_path[j] # NoPath =>
      /\ Resolve(dirname(docx_file_path[j])) =
           Resolve(dirname(event[j].src_path))
      /\ docx_file_path[j].name =
           SplitName(event[j].src_path.name)[1] \o DOCX

\* C6: no error raised while an event is handled leaves on_created; a job in
\* which a call failed ends with an error record in the log.
C6_NoErrorEscapes ==
  \A j \in Jobs :
    /\ ~escaped[j]
    /\ (pc[j] = "done" /\ SomeCallFailed(j)) =>
         \E i \in DOMAIN log[j] : log[j][i].level = "ERROR"

C6_Witness ==
  \E j, k \in Jobs :
    /\ j # k
    /\ pc[j] = "done"
    /\ ResOf(j, "subprocess.run") = "OSError"
    /\ ~escaped[j]
    /\ pc[k] = "done"
    /\ InLog(k, I_ConvOK)

\* C7: a job is reported successful exactly when stage 2 returned an empty
\* diagnostic; after a non-empty diagnostic or a thrown error the job is
\* aborted with the deletion of the temporary file attempted.
C7_Stage2Classification ==
  \A j \in Jobs :
    (pc[j] = "done" /\ HasCall(j, "convert_file")) =>
      /\ InLog(j, I_ConvOK) <=> (ResOf(j, "convert_file") = "empty")
      /\ ResOf(j, "convert_file") \in {"nonempty", "RuntimeError"} =>
           HasCall(j, "remove")

\* C8: an error record naming a stage is written exactly for a failure of
\* that stage: temp allocation, stage 1, directory creation, stage 2.
C8_FailureNamesItsStage ==
  \A j \in Jobs :
    pc[j] = "done" =>
      /\ InLog(j, E_TempCreate) <=>
           (ResOf(j, "NamedTemporaryFile") = "OSError")
      /\ InLog(j, E_PfFormat) <=> (ResOf(j, "subprocess.run") = "OSError")
      /\ InLog(j, E_Dir) <=> (ResOf(j, "makedirs") = "OSError")
      /\ (InLog(j, E_DuringConv) \/ InLog(j, E_InConv)) <=>
           (ResOf(j, "convert_file") \in {"nonempty", "RuntimeError"})

\* C9: when allocating the temporary file fails, the failure is logged and
\* the job ends at once: no stage 1, directory creation, stage 2 or cleanup.
C9_AllocFailureEndsJob ==
  \A j \in Jobs :
    ResOf(j, "NamedTemporaryFile") = "OSError" =>
      /\ pc[j] = "done"
      /\ Len(calls[j]) = 1
      /\ log[j][Len(log[j])] = E_TempCreate
      /\ CountLog(j, E_TempCreate) = 1
      /\ md_file_path[j] = 0
      /\ ~TempExists(j)

C9_Witness ==
  \E j \in Jobs :
    /\ ResOf(j, "NamedTemporaryFile") = "OSError"
    /\ pc[j] = "done"
    /\ InLog(j, E_TempCreate)

\* C10: the deletion of the temporary file is attempted at most once; when it
\* fails the failure is logged once, the job returns normally, the outcome
\* already logged for stage 2 stays, and no other error record is added.
C10_CleanupFailureLoggedOnly ==
  \A j \in Jobs :
    /\ CountCalls(j, "remove") <= 1
    /\ ResOf(j, "remove") = "OSError" =>
         /\ pc[j] = "done"
         /\ ~escaped[j]
         /\ CountLog(j, E_Delete) = 1
         /\ ~InLog(j, E_TempCreate)
         /\ InLog(j, I_ConvOK) <=> (ResOf(j, "convert_file") = "empty")
         /\ InLog(j, E_InConv) <=> (ResOf(j, "convert_file") = "nonempty")

C10_Witness ==
  \E j \in Jobs :
    /\ ResOf(j, "remove") = "OSError"
    /\ ResOf(j, "convert_file") = "empty"
    /\ InLog(j, I_ConvOK)
    /\ InLog(j, E_Delete)
    /\ TempExists(j)

OutputDirOnDisk(j) ==
  /\ ~IsEmptyPath(dirname(docx_file_path[j]))
  /\ Resolve(dirname(docx_file_path[j])) \in dirs

\* C11: whenever stage 2 is invoked the directory of the output path exists,
\* found present or created by the job; when creating it fails the job ends
\* and stage 2 is never invoked.
C11_DirExistsAtStage2 ==
  \A j \in Jobs :
    /\ (pc[j] = "stage2" \/ HasCall(j, "convert_file")) =>
         /\ OutputDirOnDisk(j)
         /\ ResOf(j, "exists") = "true" \/ ResOf(j, "makedirs") = "ok"
    /\ ResOf(j, "makedirs") = "OSError" =>
         /\ pc[j] = "done"
         /\ ~HasCall(j, "convert_file")

C11_Witness ==
  \E j \in Jobs :
    /\ ResOf(j, "exists") = "false"
    /\ ResOf(j, "makedirs") = "ok"
    /\ HasCall(j, "convert_file")
    /\ OutputDirOnDisk(j)

DebugOnly(records) ==
  \A i \in DOMAIN records : records[i] \in {D_NewFile, D_FileCreated}

\* C12: the delivery of an event the filter rejects ends the handler at once
\* and changes nothing: no temporary file, no call to either stage, no
\* directory or output file, and only the two debug records in the log.
C12_RejectedEventChangesNothing ==
  [][\A j \in Jobs :
       (pc[j] = "idle" /\ pc'[j] # "idle" /\ ~Qualifies(event'[j])) =>
         /\ pc'[j] = "done"
         /\ calls'[j] = <<>>
         /\ md_file_path'[j] = 0
         /\ docx_file_path'[j] = NoPath
         /\ ~handleOpen'[j]
         /\ DebugOnly(log'[j])
         /\ UNCHANGED <<tempFiles, outFiles, dirs>>]_vars

C12_Witness ==
  \E j \in Jobs :
    /\ event[j] = FileEvent(AbsRoot, REPORT_XML)
    /\ pc[j] = "done"
    /\ calls[j] = <<>>
    /\ log[j] = <<D_NewFile, D_FileCreated>>

\* what job k put on disk, as creation events
ArtifactsOf(k) ==
  (IF docx_file_path[k] # NoPath
     THEN {FileEvent(dirname(docx_file_path[k]), docx_file_path[k].name),
           DirCreated(dirname(docx_file_path[k]))}
     ELSE {})
    \cup (IF md_file_path[k] # 0
            THEN {FileEvent(TempDir, TempFileName(md_file_path[k]))}
            ELSE {})

\* C13: a creation event for a job's output file, temporary file or output
\* directory never starts a job.
C13_NoReactionToOwnArtifacts ==
  [][\A j, k \in Jobs :
       (pc[j] = "idle" /\ pc'[j] # "idle" /\ event'[j] \in ArtifactsOf(k)) =>
         ~JobStarted(j)']_vars

C13_Witness ==
  \E j, k \in Jobs :
    /\ j # k
    /\ OutputExists(k)
    /\ docx_file_path[k].dirs = <<"sub", "sub">>
    /\ event[j] = FileEvent(dirname(docx_file_path[k]), docx_file_path[k].name)
    /\ pc[j] = "done"
    /\ ~JobStarted(j)

InFlight(j) ==
  pc[j] \in {"stage1", "dircheck", "makedirs", "stage2", "cleanup"}

\* C14: in every interleaving a job in flight has its own temporary file on
\* disk under a name no other job in flight uses, and every temporary file on
\* disk is the one its owner holds: no job removed or replaced another's.
C14_OwnIntermediatePath ==
  /\ \A j \in Jobs :
       InFlight(j) =>
         /\ [name |-> md_file_path[j], owner |-> j] \in tempFiles
         /\ \A k \in Jobs \ {j} :
              InFlight(k) => md_file_path[k] # md_file_path[j]
  /\ \A t \in tempFiles : md_file_path[t.owner] = t.name
  /\ \A t, u \in tempFiles : t.name = u.name => t = u

C14_Witness ==
  \E j, k \in Jobs :
    /\ j # k
    /\ event[j] = event[k]
    /\ pc[j] = "cleanup"
    /\ pc[k] = "cleanup"
    /\ md_file_path[j] # md_file_path[k]

ScheduledOk == {i \in DOMAIN scheduleCalls : scheduleCalls[i].res = "ok"}

ScheduleFailed == DOMAIN scheduleCalls \ ScheduledOk

C16_StopAfterInterrupt ==
  /\ [](/\ mainPc = "loop" => observer = "running"
        /\ observer = "stopped" => mainPc \in {"join", "returned"}
        /\ mainPc = "returned" =>
             /\ observer = "stopped"
             /\ \A j \in Jobs : pc[j] \in {"idle", "done"})
  /\ [][observer = "stopped" =>
          \A j \in Jobs : pc[j] = "idle" => pc'[j] = "idle"]_vars
  /\ (mainPc = "except") ~> (observer = "stopped")

C16_Witness ==
  /\ mainPc = "returned"
  /\ observer = "stopped"
  /\ \E j \in Jobs : pc[j] = "done" /\ HasCall(j, "remove")
  /\ \E j \in Jobs : pc[j] = "idle"

\* the jobs that were started are runs on one source path, all returned, with
\* allocation, stage 1, directory creation and stage 2 succeeded
Started == {j \in Jobs : pc[j] # "idle"}

SuccessfulRunsOfOneSource ==
  /\ Started # {}
  /\ \A j, k \in Started : event[j] = event[k]
  /\ \A j \in Started : pc[j] = "done" /\ AllStagesSucceeded(j)

\* C17 as stated: after any number of successful runs on one source path
\* there is one output file, at the path every run derived, and no temporary
\* file is left.
C17_Original ==
  SuccessfulRunsOfOneSource =>
    /\ Cardinality(outFiles) = 1
    /\ \A j \in Started : OutputExists(j)
    /\ tempFiles = {}

\* C17 amended: after any number of successful runs on one source path there
\* is one output file, at the path every run derived, and the temporary files
\* left are exactly those of the runs whose deletion failed: none when every
\* deletion succeeded.
C17_Idempotent ==
  SuccessfulRunsOfOneSource =>
    /\ Cardinality(outFiles) = 1
    /\ \A j \in Started : OutputExists(j)
    /\ {t.owner : t \in tempFiles} =
         {j \in Started : ResOf(j, "remove") = "OSError"}

C17_Witness ==
  /\ SuccessfulRunsOfOneSource
  /\ Cardinality(Started) >= 2
  /\ \A j \in Started : ResOf(j, "remove") = "ok"
  /\ Cardinality(outFiles) = 1
  /\ tempFiles = {}

CallOrder ==
  <<"NamedTemporaryFile", "subprocess.run", "exists", "makedirs",
    "convert_file", "remove">>

Ops == {CallOrder[r] : r \in DOMAIN CallOrder}

Rank == [op \in Ops |-> CHOOSE r \in DOMAIN CallOrder : CallOrder[r] = op]

\* the step that must have returned just before op is called
Predecessors ==
  [op \in Ops |->
     CASE op = "subprocess.run" ->
            {[op |-> "NamedTemporaryFile", res |-> "ok"]}
       [] op = "exists" -> {[op |-> "subprocess.run", res |-> "exit0"],
                            [op |-> "subprocess.run", res |-> "exit1"]}
       [] op = "makedirs" -> {[op |-> "exists", res |-> "false"]}
       [] op = "convert_file" -> {[op |-> "exists", res |-> "true"],
                                  [op |-> "makedirs", res |-> "ok"]}
       [] op = "remove" -> {[op |-> "convert_file", res |-> "empty"],
                            [op |-> "convert_file", res |-> "nonempty"]}
       [] OTHER -> {}]

\* C18: a job's steps occur in the order allocate, stage 1, ensure directory,
\* stage 2, cleanup, each after the one before it returned and each at most
\* once; an accepted event gives exactly one run, a rejected one none.
C18_StepOrder ==
  /\ [](\A j \in Jobs :
         /\ \A i \in 1..(Len(calls[j]) - 1) :
              Rank[calls[j][i].op] < Rank[calls[j][i + 1].op]
         /\ \A i \in DOMAIN calls[j] :
              IF i = 1 THEN calls[j][i].op = "NamedTemporaryFile"
              ELSE calls[j][i - 1] \in Predecessors[calls[j][i].op])
  /\ [][\A j \in Jobs :
         (pc[j] # "done" /\ pc'[j] = "done") =>
           CountCalls(j, "NamedTemporaryFile")' =
             (IF Qualifies(event'[j]) THEN 1 ELSE 0)]_vars

C18_Witness ==
  \E j \in Jobs :
    /\ pc[j] = "done"
    /\ Len(calls[j]) = 6
    /\ calls[j][6] = [op |-> "remove", res |-> "ok"]

\* C19: a job whose output directory was created by another job between its
\* existence check and its own create call goes on to stage 2.
C19_NoAbortOnConcurrentCreate ==
  [][\A j \in Jobs :
       (/\ pc[j] = "makedirs"
        /\ exists(dirname(docx_file_path[j]))
        /\ pc'[j] # "makedirs") => pc'[j] = "stage2"]_vars

\* C20: the file object opened at allocation is closed before the deletion of
\* the temporary file is attempted, and is closed when on_created returns.
C20_HandleClosedBeforeDelete ==
  \A j \in Jobs : pc[j] \in {"cleanup", "done"} => ~handleOpen[j]
====
